---- MODULE Spec2Model ----
(***************************************************************************)
(* Idle / shift / overtime state machine of the desktop client             *)
(* (src/main.py: GlobalActivityMonitor and UserApp).                       *)
(*                                                                         *)
(* Time is in milliseconds.  `now` is time.monotonic(); the wall clock in  *)
(* the shift timezone (dt.datetime.now(SHIFT_TZ), Asia/Karachi, no DST) is *)
(* wall_base + now, counted in ms from local midnight of calendar day 0.   *)
(* Python's None is the value None below; user ids are positive.           *)
(***************************************************************************)
EXTENDS Integers, FiniteSets, Sequences, TLC

VARIABLES
    \* ---- environment ----
    now,                      \* time.monotonic(), ms
    wall_base,                \* wall clock (ms since midnight of day 0) at now = 0
    horizon,                  \* the model stops the clock here
    due,                      \* instant the pending self.after(CHECK_INTERVAL_MS, _loop_check) fires
    alive,                    \* the process has not run _graceful_shutdown yet
    \* ---- GlobalActivityMonitor ----
    _last_fire,
    \* ---- UserApp ----
    current_user,
    logged_in_at,             \* history: time.monotonic() at the latest on_logged_in, or None
    last_activity,
    inactive_sent,
    active_since,
    inactive_started_mono,
    active_seconds_today,
    inactive_seconds_today,
    overtime_seconds_today,
    _last_tick,
    screenshots_taken_today,
    next_screenshot_after_ms,
    _today_shift_start,
    _today_shift_end,
    _overtime_started_mono,
    _recording_in_progress,
    _pre_shift,
    ui_status,                \* TrackerFrame.status_var
    \* ---- collaborators (backend store, notifier, mailer, capture, threads) ----
    user_db,                  \* users table: id -> shift times of day
    db_status,                \* users.status as written by update_user_status
    events,                   \* number of record_event(.., "inactive", ..) calls
    last_event,               \* arguments of the latest record_event call
    inactive_writes,          \* number of update_user_status(.., "inactive") calls
    notifications,            \* number of "You are inactive" toasts
    emails,                   \* number of email fan-out threads started
    rec_dispatched,           \* number of _record_and_store threads started
    rec_worker,               \* the _record_and_store thread in flight, or None
    recordings,               \* number of insert_recording_url calls
    overtime_rows,            \* number of insert_overtime calls
    capture_calls,            \* number of _capture_png_bytes calls
    \* ---- threads, where a model follows them statement by statement ----
    tick_pc,                  \* the statement of _loop_check the Tk main thread is at
    tick_idle,                \* the local `idle` of the running _loop_check, or None
    listener,                 \* per pynput listener thread: the local `now` of a
                              \* _maybe_fire that has passed its test, or None
    callback                  \* per pynput listener thread: the _on_global_activity
                              \* that is inside its update_user_status call

vars == << now, wall_base, horizon, due, alive, _last_fire, current_user,
           logged_in_at,
           last_activity, inactive_sent, active_since, inactive_started_mono,
           active_seconds_today, inactive_seconds_today, overtime_seconds_today,
           _last_tick, screenshots_taken_today, next_screenshot_after_ms,
           _today_shift_start, _today_shift_end, _overtime_started_mono,
           _recording_in_progress, _pre_shift, ui_status, user_db, db_status,
           events, last_event, notifications, emails, rec_dispatched,
           rec_worker, recordings, overtime_rows, capture_calls,
           tick_pc, tick_idle, listener, inactive_writes, callback >>

None == -1

\* ---- program constants (src/main.py) ----
INACTIVITY_SECONDS == 10
CHECK_INTERVAL_MS == 250
MIN_SCREENSHOTS_PER_SHIFT == 15
MIN_INTERVAL_MS == 150           \* GlobalActivityMonitor(min_interval=0.15)
SHOT_MIN_MINUTES == 20           \* random.randint(20, 35)
SHOT_MAX_MINUTES == 35

SecMs == 1000
DayMs == 24 * 60 * 60 * SecMs
HMS(h, m, s) == ((h * 60 + m) * 60 + s) * SecMs

\* ---- bounds of the model ----
LongWindowMs == 22500            \* clock window of the pre-shift scenario, ms
ShortWindowMs == 12000           \* clock window of the shift-end scenarios, ms

\* the two listener threads GlobalActivityMonitor.start starts
ListenerThreads == { "mouse", "keyboard" }

\* a listener thread that is not inside _on_global_activity
CallbackIdle == [pc |-> "idle", now |-> None, user |-> None, ends |-> FALSE]

\* monotonic clock reading when UserApp is constructed
BootMono == 4 * CHECK_INTERVAL_MS

\* users table of the store: the strptime("%H:%M:%S") parse of the two
\* columns, as ms since midnight
DayUser == 1
NightUser == 2
UserTable ==
    (DayUser   :> [shift_start_time |-> HMS(9, 0, 0),  shift_end_time |-> HMS(18, 0, 0)]) @@
    (NightUser :> [shift_start_time |-> HMS(22, 0, 0), shift_end_time |-> HMS(6, 0, 0)])

\* wall clock at construction and the length of the run that follows, one
\* choice per behaviour: shortly before the day shift starts, shortly before
\* it ends, shortly after it has ended
BootScenarios ==
    { [wall |-> HMS(8, 59, 48),  window |-> LongWindowMs],
      [wall |-> HMS(17, 59, 55), window |-> ShortWindowMs],
      [wall |-> HMS(18, 0, 5),   window |-> ShortWindowMs] }

Wall == wall_base + now

\* the user acts (raw input, login, logout, quitting) on a one-second grid
InputGridMs == 4 * CHECK_INTERVAL_MS
UserActsNow == (now - BootMono) % InputGridMs = 0

\* int(x / 1000) for a signed difference in ms: Python truncates toward zero
TruncSeconds(ms) == IF ms >= 0 THEN ms \div SecMs ELSE -((-ms) \div SecMs)


\* ---- UserApp._compute_today_bounds ----
\* row: the user's row; wall: dt.datetime.now(SHIFT_TZ).  Result: <<start, end>>.
ShiftEndOrDefault(row) ==
    IF row.shift_end_time = None THEN HMS(18, 0, 0) ELSE row.shift_end_time

\* "if end <= start": the shift runs over midnight
IsOvernight_Strict(start, end) == end < start
IsOvernight(start, end) == end <= start

\* a shift time strptime("%H:%M:%S") rejects with ValueError
Unparsable == -2
BoundsRaise(row) ==
    row.shift_start_time = Unparsable \/ row.shift_end_time = Unparsable

ComputeTodayBounds(row, wall) ==
    LET midnight == (wall \div DayMs) * DayMs
        start    == midnight + row.shift_start_time
        end      == midnight + ShiftEndOrDefault(row)
    IN  << start, IF IsOvernight(start, end) THEN end + DayMs ELSE end >>

\* ---- UserApp._plan_next_random_screenshot ----
\* the draws of random.randint the model follows: the two ends of the range
ShotMinutes == { SHOT_MIN_MINUTES, SHOT_MAX_MINUTES }
PlanNextRandomScreenshot_Seconds(mins) == mins * 1000
PlanNextRandomScreenshot(mins) == mins * 60 * 1000

\* ---- UserApp._flush_overtime_segment ----
\* Result: the new values of _overtime_started_mono, overtime_seconds_today
\* and the number of insert_overtime rows.
FlushOvertimeSegment ==
    IF _overtime_started_mono = None \/ current_user = None
    THEN [started |-> _overtime_started_mono,
          overtime |-> overtime_seconds_today, rows |-> overtime_rows]
    ELSE LET diff    == now - _overtime_started_mono
             seconds == IF diff > 0 THEN diff \div SecMs ELSE 0
         IN  IF seconds <= 0
             THEN [started |-> None,
                   overtime |-> overtime_seconds_today, rows |-> overtime_rows]
             ELSE [started |-> None,
                   overtime |-> overtime_seconds_today + seconds,
                   rows |-> overtime_rows + 1]

\* ---- the state after UserApp.__init__ ----
InitApp ==
    /\ now = BootMono
    /\ due = BootMono + CHECK_INTERVAL_MS
    /\ alive = TRUE
    /\ _last_fire = 0
    /\ current_user = None
    /\ logged_in_at = None
    /\ last_activity = BootMono
    /\ inactive_sent = FALSE
    /\ active_since = None
    /\ inactive_started_mono = None
    /\ active_seconds_today = 0
    /\ inactive_seconds_today = 0
    /\ overtime_seconds_today = 0
    /\ _last_tick = BootMono
    /\ screenshots_taken_today = 0
    /\ next_screenshot_after_ms = None
    /\ _today_shift_start = None
    /\ _today_shift_end = None
    /\ _overtime_started_mono = None
    /\ _recording_in_progress = FALSE
    /\ _pre_shift = FALSE
    /\ ui_status = "Off"
    /\ db_status = [u \in DOMAIN user_db |-> "off"]
    /\ events = 0
    /\ inactive_writes = 0
    /\ last_event = [id |-> 0, user |-> None, active_duration_seconds |-> None]
    /\ notifications = 0
    /\ emails = 0
    /\ rec_dispatched = 0
    /\ rec_worker = {}
    /\ recordings = 0
    /\ overtime_rows = 0
    /\ capture_calls = 0
    /\ tick_pc = "idle"
    /\ tick_idle = None
    /\ listener = [th \in ListenerThreads |-> None]
    /\ callback = [th \in ListenerThreads |-> CallbackIdle]

Init ==
    /\ user_db = UserTable
    /\ \E b \in BootScenarios :
          /\ wall_base = b.wall - BootMono
          /\ horizon = BootMono + b.window
    /\ InitApp

\* ---- time passes until the pending after() timer fires; a _maybe_fire
\* ---- that has passed its test runs its callback first ----
AdvanceToDue ==
    /\ alive
    /\ due # None
    /\ now < due
    /\ \A th \in ListenerThreads : listener[th] = None
    /\ \A th \in ListenerThreads : callback[th] = CallbackIdle
    /\ due <= horizon
    /\ now' = due
    /\ UNCHANGED << wall_base, horizon, due, alive, _last_fire, current_user, logged_in_at,
           last_activity, inactive_sent, active_since, inactive_started_mono,
           active_seconds_today, inactive_seconds_today, overtime_seconds_today,
           _last_tick, screenshots_taken_today, next_screenshot_after_ms,
           _today_shift_start, _today_shift_end, _overtime_started_mono,
           _recording_in_progress, _pre_shift, ui_status, user_db, db_status,
           events, last_event, notifications, emails, rec_dispatched,
           rec_worker, recordings, overtime_rows, capture_calls,
           tick_pc, tick_idle, listener, inactive_writes, callback >>

\* ---- UserApp._on_global_activity, reached through
\* ---- GlobalActivityMonitor._maybe_fire on a raw input event ----
\* "if self.inactive_sent:" and "elif self.active_since is None:", behind
\* "if self.current_user is not None:" and "if self._pre_shift: return"
CallbackEndsEpisode ==
    current_user # None /\ ~_pre_shift /\ inactive_sent

CallbackOpensStreak_IgnoresPreShift ==
    current_user # None /\ ~inactive_sent /\ active_since = None

CallbackOpensStreak ==
    current_user # None /\ ~_pre_shift /\ ~inactive_sent /\ active_since = None

OnGlobalActivity_KeepsStreak ==
    /\ last_activity' = now
    /\ IF CallbackEndsEpisode
       THEN /\ db_status' = [db_status EXCEPT ![current_user] = "active"]
            /\ inactive_sent' = FALSE
            /\ inactive_started_mono' = None
            /\ ui_status' = "Active"
            /\ UNCHANGED active_since
       ELSE IF CallbackOpensStreak
       THEN /\ db_status' = [db_status EXCEPT ![current_user] = "active"]
            /\ active_since' = now
            /\ ui_status' = "Active"
            /\ UNCHANGED << inactive_sent, inactive_started_mono >>
       ELSE UNCHANGED << db_status, inactive_sent, active_since,
                         inactive_started_mono, ui_status >>

OnGlobalActivity ==
    /\ last_activity' = now
    /\ IF CallbackEndsEpisode
       THEN /\ db_status' = [db_status EXCEPT ![current_user] = "active"]
            /\ inactive_sent' = FALSE
            /\ active_since' = now
            /\ inactive_started_mono' = None
            /\ ui_status' = "Active"
       ELSE IF CallbackOpensStreak
       THEN /\ db_status' = [db_status EXCEPT ![current_user] = "active"]
            /\ active_since' = now
            /\ ui_status' = "Active"
            /\ UNCHANGED << inactive_sent, inactive_started_mono >>
       ELSE UNCHANGED << db_status, inactive_sent, active_since,
                         inactive_started_mono, ui_status >>

MaybeFire ==
    /\ alive
    /\ UserActsNow
    /\ now - _last_fire >= MIN_INTERVAL_MS
    /\ _last_fire' = now
    /\ OnGlobalActivity
    /\ UNCHANGED << now, wall_base, horizon, due, alive, current_user, logged_in_at,
           active_seconds_today, inactive_seconds_today, overtime_seconds_today,
           _last_tick, screenshots_taken_today, next_screenshot_after_ms,
           _today_shift_start, _today_shift_end, _overtime_started_mono,
           _recording_in_progress, _pre_shift, user_db,
           events, last_event, notifications, emails, rec_dispatched,
           rec_worker, recordings, overtime_rows, capture_calls,
           tick_pc, tick_idle, listener, inactive_writes, callback >>

\* ---- UserApp.on_logged_in (AuthFrame.do_login; the login form is only
\* ---- shown while nobody is logged in) ----
\* "if self._today_shift_start and now_local < self._today_shift_start"
LoginIsPreShift_Inclusive(now_local, start) == start # None /\ now_local <= start
LoginIsPreShift(now_local, start) == start # None /\ now_local < start

\* show_frame("TrackerFrame") has run: on_logged_in reached one of its two
\* ends, so the bounds are set; show_frame("AuthFrame") runs in logout
TrackerFrameShown == current_user # None /\ _today_shift_end # None

\* get_user_by_id has stored current_user and _compute_today_bounds raises
\* on the row; do_login catches the exception and shows it
OnLoggedIn(uid, mins) ==
    LET bounds    == ComputeTodayBounds(user_db[uid], Wall)
        now_local == Wall
    IN
    /\ alive
    /\ UserActsNow
    /\ tick_pc = "idle"
    /\ ~TrackerFrameShown
    /\ current_user' = uid
    /\ IF BoundsRaise(user_db[uid])
       THEN /\ UNCHANGED << now, wall_base, horizon, due, alive, _last_fire,
                            logged_in_at, last_activity, inactive_sent, active_since,
                            inactive_started_mono, active_seconds_today,
                            inactive_seconds_today, overtime_seconds_today,
                            _last_tick, screenshots_taken_today,
                            next_screenshot_after_ms, _today_shift_start,
                            _today_shift_end, _overtime_started_mono,
                            _recording_in_progress, _pre_shift, ui_status, user_db,
                            db_status, events, last_event, notifications, emails,
                            rec_dispatched, rec_worker, recordings, overtime_rows,
                            capture_calls, tick_pc, tick_idle, listener,
                            inactive_writes, callback >>
       ELSE /\ logged_in_at' = now
            /\ _today_shift_start' = bounds[1]
            /\ _today_shift_end' = bounds[2]
            /\ active_seconds_today' = 0
            /\ inactive_seconds_today' = 0
            /\ overtime_seconds_today' = 0
            /\ _last_tick' = now
            /\ IF LoginIsPreShift(now_local, bounds[1])
               THEN /\ _pre_shift' = TRUE
                    /\ db_status' = [db_status EXCEPT ![uid] = "off"]
                    /\ ui_status' = "Off (shift not started)"
                    /\ UNCHANGED << last_activity, inactive_sent, active_since,
                                    inactive_started_mono, screenshots_taken_today,
                                    next_screenshot_after_ms >>
               ELSE /\ last_activity' = now
                    /\ inactive_sent' = FALSE
                    /\ active_since' = now
                    /\ inactive_started_mono' = None
                    /\ db_status' = [db_status EXCEPT ![uid] = "active"]
                    /\ ui_status' = "Active"
                    /\ screenshots_taken_today' = 0
                    /\ next_screenshot_after_ms' = PlanNextRandomScreenshot(mins)
                    /\ UNCHANGED _pre_shift
            /\ UNCHANGED << now, wall_base, horizon, due, alive, _last_fire,
                   _overtime_started_mono, _recording_in_progress, user_db,
                   events, last_event, notifications, emails, rec_dispatched,
                   rec_worker, recordings, overtime_rows, capture_calls,
                   tick_pc, tick_idle, listener, inactive_writes, callback >>

Login ==
    \E uid \in DOMAIN user_db :
        LET pre == \/ BoundsRaise(user_db[uid])
                   \/ LoginIsPreShift(Wall, ComputeTodayBounds(user_db[uid], Wall)[1])
        IN  \E mins \in (IF pre THEN {SHOT_MIN_MINUTES} ELSE ShotMinutes) :
                OnLoggedIn(uid, mins)

\* ---- UserApp.logout ----
Logout ==
    /\ alive
    /\ UserActsNow
    /\ tick_pc = "idle"
    /\ TrackerFrameShown
    /\ db_status' = [db_status EXCEPT ![current_user] = "off"]
    /\ current_user' = None
    /\ logged_in_at' = None
    /\ last_activity' = now
    /\ inactive_sent' = FALSE
    /\ active_since' = None
    /\ inactive_started_mono' = None
    /\ active_seconds_today' = 0
    /\ inactive_seconds_today' = 0
    /\ overtime_seconds_today' = 0
    /\ _today_shift_start' = None
    /\ _today_shift_end' = None
    /\ _overtime_started_mono' = None
    /\ screenshots_taken_today' = 0
    /\ next_screenshot_after_ms' = None
    /\ _pre_shift' = FALSE
    /\ UNCHANGED << now, wall_base, horizon, due, alive, _last_fire,
           _last_tick, _recording_in_progress, ui_status, user_db,
           events, last_event, notifications, emails, rec_dispatched,
           rec_worker, recordings, overtime_rows, capture_calls,
           tick_pc, tick_idle, listener, inactive_writes, callback >>

\* ---- UserApp._graceful_shutdown (atexit, SIGINT, SIGTERM) ----
GracefulShutdown ==
    LET f == FlushOvertimeSegment
    IN
    /\ alive
    /\ UserActsNow
    /\ alive' = FALSE
    /\ _overtime_started_mono' = f.started
    /\ overtime_seconds_today' = f.overtime
    /\ overtime_rows' = f.rows
    /\ db_status' = IF current_user # None
                    THEN [db_status EXCEPT ![current_user] = "off"]
                    ELSE db_status
    /\ UNCHANGED << now, wall_base, horizon, due, _last_fire, current_user, logged_in_at,
           last_activity, inactive_sent, active_since, inactive_started_mono,
           active_seconds_today, inactive_seconds_today,
           _last_tick, screenshots_taken_today, next_screenshot_after_ms,
           _today_shift_start, _today_shift_end,
           _recording_in_progress, _pre_shift, ui_status, user_db,
           events, last_event, notifications, emails, rec_dispatched,
           rec_worker, recordings, capture_calls,
           tick_pc, tick_idle, listener, inactive_writes, callback >>

\* ---- UserApp._record_and_store: the worker thread runs to its end.
\* ---- ok = FALSE: capture, encoding or the insert raised. ----
\* the user the worker hands to insert_recording_url: self.current_user["id"],
\* read when the capture has ended (None: the subscript raises, no insert)
InsertRecordingUser == current_user

RecordAndStore_NoFinally(ok) ==
    /\ alive
    /\ rec_worker # {}
    /\ recordings' = IF ok /\ InsertRecordingUser # None
                   THEN recordings + 1 ELSE recordings
    /\ _recording_in_progress' = IF ok THEN FALSE ELSE _recording_in_progress
    /\ rec_worker' = {}
    /\ UNCHANGED << now, wall_base, horizon, due, alive, _last_fire, current_user, logged_in_at,
           last_activity, inactive_sent, active_since, inactive_started_mono,
           active_seconds_today, inactive_seconds_today, overtime_seconds_today,
           _last_tick, screenshots_taken_today, next_screenshot_after_ms,
           _today_shift_start, _today_shift_end, _overtime_started_mono,
           _pre_shift, ui_status, user_db, db_status,
           events, last_event, notifications, emails, rec_dispatched,
           overtime_rows, capture_calls,
           tick_pc, tick_idle, listener, inactive_writes, callback >>

RecordAndStore(ok) ==
    /\ alive
    /\ rec_worker # {}
    /\ recordings' = IF ok /\ InsertRecordingUser # None
                   THEN recordings + 1 ELSE recordings
    /\ _recording_in_progress' = FALSE
    /\ rec_worker' = {}
    /\ UNCHANGED << now, wall_base, horizon, due, alive, _last_fire, current_user, logged_in_at,
           last_activity, inactive_sent, active_since, inactive_started_mono,
           active_seconds_today, inactive_seconds_today, overtime_seconds_today,
           _last_tick, screenshots_taken_today, next_screenshot_after_ms,
           _today_shift_start, _today_shift_end, _overtime_started_mono,
           _pre_shift, ui_status, user_db, db_status,
           events, last_event, notifications, emails, rec_dispatched,
           overtime_rows, capture_calls,
           tick_pc, tick_idle, listener, inactive_writes, callback >>

RecordingWorker == \E ok \in BOOLEAN : RecordAndStore(ok)


\* ---- UserApp._start_shift_now: the fields it leaves behind ----
StartShiftNow_KeepsPreShift(mins) ==
    [last_activity |-> now, inactive_sent |-> FALSE, active_since |-> now,
     inactive_started_mono |-> None, _pre_shift |-> TRUE,
     screenshots_taken_today |-> 0,
     next_screenshot_after_ms |-> PlanNextRandomScreenshot(mins),
     db |-> [db_status EXCEPT ![current_user] = "active"], ui |-> "Active"]

StartShiftNow(mins) ==
    [last_activity |-> now, inactive_sent |-> FALSE, active_since |-> now,
     inactive_started_mono |-> None, _pre_shift |-> FALSE,
     screenshots_taken_today |-> 0,
     next_screenshot_after_ms |-> PlanNextRandomScreenshot(mins),
     db |-> [db_status EXCEPT ![current_user] = "active"], ui |-> "Active"]

\* ---- UserApp._maybe_take_random_screenshot, from the count and the armed
\* ---- delay the tick has reached.  shot_ok = FALSE: the capture or
\* ---- insert_screenshot_url raised.  Result: count, delay, capture calls.
ShotCapReached_OffByOne(taken) == taken > MIN_SCREENSHOTS_PER_SHIFT
ShotCapReached(taken) == taken >= MIN_SCREENSHOTS_PER_SHIFT

MaybeTakeRandomScreenshot(taken, after_ms, mins, shot_ok) ==
    IF current_user = None \/ ShotCapReached(taken) \/ after_ms = None
    THEN [taken |-> taken, after_ms |-> after_ms, calls |-> capture_calls]
    ELSE IF after_ms - CHECK_INTERVAL_MS <= 0
         THEN [taken |-> IF shot_ok THEN taken + 1 ELSE taken,
               after_ms |-> PlanNextRandomScreenshot(mins),
               calls |-> capture_calls + 1]
         ELSE [taken |-> taken, after_ms |-> after_ms - CHECK_INTERVAL_MS,
               calls |-> capture_calls]

\* "delta = int(now - self._last_tick)" of the 1-second ticker
TickerDelta_RoundsUp(ms) == (ms + SecMs - 1) \div SecMs
TickerDelta(ms) == ms \div SecMs

\* "self._last_tick += delta": the fraction of a second stays behind
TickerCarry_DropsFraction(last_tick, delta) == now
TickerCarry(last_tick, delta) == last_tick + delta * SecMs

\* "if self.current_user and not self._pre_shift" of the 1-second ticker,
\* with the pre-shift flag as the tick has left it
TickerCounts_AlsoPreShift(pre) == current_user # None
TickerCounts(pre) == current_user # None /\ ~pre

\* "if idle >= INACTIVITY_SECONDS and not self.inactive_sent" of the
\* inactivity boundary
InactivityFires_NoDebounce(pre, idle, sent) ==
    current_user # None /\ ~pre /\ idle >= INACTIVITY_SECONDS * SecMs
InactivityFires(pre, idle, sent) ==
    current_user # None /\ ~pre /\ idle >= INACTIVITY_SECONDS * SecMs /\ ~sent

\* "if not self._recording_in_progress" of the recording dispatch
StartsRecording_NoGuard(fires) == fires
StartsRecording(fires) == fires /\ ~_recording_in_progress

\* the overtime block of the tick computes after_end and leaves the open
\* segment marker as it is
OvertimeMarkerAfterTick_Opens(after_end, idle) ==
    IF after_end /\ idle < INACTIVITY_SECONDS * SecMs /\ _overtime_started_mono = None
    THEN now ELSE _overtime_started_mono
OvertimeMarkerAfterTick(after_end, idle) == _overtime_started_mono

\* the pre-shift block of this tick starts the shift
ShiftStartsNow ==
    /\ current_user # None
    /\ _pre_shift
    /\ _today_shift_start # None
    /\ TruncSeconds(_today_shift_start - Wall) <= 0

\* the armed screenshot delay runs out on this tick
ShotFiresNow ==
    /\ current_user # None
    /\ ~_pre_shift
    /\ ~ShotCapReached(screenshots_taken_today)
    /\ next_screenshot_after_ms # None
    /\ next_screenshot_after_ms - CHECK_INTERVAL_MS <= 0

\* ---- UserApp._loop_check: one tick, from top to the re-arming after() ----
\* "if self._today_shift_end is None: self._compute_today_bounds()" raises:
\* the exception leaves _loop_check before its after() call
BoundsRaiseInTick ==
    /\ current_user # None
    /\ _today_shift_end = None
    /\ BoundsRaise(user_db[current_user])

LoopCheck(mins, shot_ok) ==
    LET idle   == now - last_activity
        \* pre-shift countdown & auto-start
        starts == ShiftStartsNow
        st     == StartShiftNow(mins)
        pre1   == IF starts THEN st._pre_shift ELSE _pre_shift
        sent1  == IF starts THEN st.inactive_sent ELSE inactive_sent
        since1 == IF starts THEN st.active_since ELSE active_since
        la1    == IF starts THEN st.last_activity ELSE last_activity
        ism1   == IF starts THEN st.inactive_started_mono ELSE inactive_started_mono
        taken1 == IF starts THEN st.screenshots_taken_today ELSE screenshots_taken_today
        after1 == IF starts THEN st.next_screenshot_after_ms ELSE next_screenshot_after_ms
        db1    == IF starts THEN st.db ELSE db_status
        ui1    == IF starts THEN st.ui ELSE ui_status
        \* overtime window
        bounds == IF current_user # None /\ _today_shift_end = None
                  THEN ComputeTodayBounds(user_db[current_user], Wall)
                  ELSE << _today_shift_start, _today_shift_end >>
        after_end == current_user # None /\ bounds[2] # None /\ Wall >= bounds[2]
        \* 1-second ticker
        ticks  == now - _last_tick >= SecMs
        delta  == TickerDelta(now - _last_tick)
        counts == ticks /\ TickerCounts(pre1)
        isact  == idle < INACTIVITY_SECONDS * SecMs
        \* inactivity boundary
        fires  == InactivityFires(pre1, idle, sent1)
        active_duration == IF since1 # None THEN (now - since1) \div SecMs ELSE None
        event_id == events + 1
        starts_rec == StartsRecording(fires)
        \* random screenshots
        shot   == IF ~pre1
                  THEN MaybeTakeRandomScreenshot(taken1, after1, mins, shot_ok)
                  ELSE [taken |-> taken1, after_ms |-> after1, calls |-> capture_calls]
    IN
    /\ alive
    /\ tick_pc = "idle"
    /\ due # None
    /\ now >= due
    /\ IF BoundsRaiseInTick
       THEN /\ due' = None
            /\ UNCHANGED << now, wall_base, horizon, alive, _last_fire, current_user,
                            logged_in_at, last_activity, inactive_sent, active_since,
                            inactive_started_mono, active_seconds_today,
                            inactive_seconds_today, overtime_seconds_today,
                            _last_tick, screenshots_taken_today,
                            next_screenshot_after_ms, _today_shift_start,
                            _today_shift_end, _overtime_started_mono,
                            _recording_in_progress, _pre_shift, ui_status, user_db,
                            db_status, events, last_event, notifications, emails,
                            rec_dispatched, rec_worker, recordings, overtime_rows,
                            capture_calls, tick_pc, tick_idle, listener,
                            inactive_writes, callback >>
       ELSE /\ due' = now + CHECK_INTERVAL_MS
            /\ _today_shift_start' = bounds[1]
            /\ _today_shift_end' = bounds[2]
            /\ _last_tick' = IF ticks THEN TickerCarry(_last_tick, delta) ELSE _last_tick
            /\ active_seconds_today' =
                  IF counts /\ isact THEN active_seconds_today + delta ELSE active_seconds_today
            /\ overtime_seconds_today' =
                  IF counts /\ isact /\ after_end
                  THEN overtime_seconds_today + delta ELSE overtime_seconds_today
            /\ inactive_seconds_today' =
                  IF counts /\ ~isact THEN inactive_seconds_today + delta ELSE inactive_seconds_today
            /\ last_activity' = la1
            /\ active_since' = since1
            /\ _pre_shift' = pre1
            /\ inactive_sent' = IF fires THEN TRUE ELSE sent1
            /\ inactive_started_mono' = IF fires THEN now ELSE ism1
            /\ db_status' = IF fires THEN [db1 EXCEPT ![current_user] = "inactive"] ELSE db1
            /\ ui_status' = IF fires THEN "Inactive" ELSE ui1
            /\ events' = IF fires THEN event_id ELSE events
            /\ inactive_writes' = IF fires THEN inactive_writes + 1 ELSE inactive_writes
            /\ last_event' = IF fires
                             THEN [id |-> event_id, user |-> current_user,
                                   active_duration_seconds |-> active_duration]
                             ELSE last_event
            /\ notifications' = IF fires THEN notifications + 1 ELSE notifications
            /\ emails' = IF fires THEN emails + 1 ELSE emails
            /\ _recording_in_progress' = IF starts_rec THEN TRUE ELSE _recording_in_progress
            /\ rec_dispatched' = IF starts_rec THEN rec_dispatched + 1 ELSE rec_dispatched
            /\ rec_worker' = IF starts_rec
                             THEN rec_worker \cup {[event_id |-> event_id, user |-> current_user]}
                             ELSE rec_worker
            /\ screenshots_taken_today' = shot.taken
            /\ next_screenshot_after_ms' = shot.after_ms
            /\ capture_calls' = shot.calls
            /\ _overtime_started_mono' = OvertimeMarkerAfterTick(after_end, idle)
            /\ UNCHANGED << now, wall_base, horizon, alive, _last_fire, current_user, logged_in_at,
                            user_db, recordings, overtime_rows,
                            tick_pc, tick_idle, listener, callback >>

\* the tick, with the random draw and the capture outcome only where the
\* tick uses them
Tick ==
    \E mins \in (IF ShiftStartsNow \/ ShotFiresNow THEN ShotMinutes ELSE {SHOT_MIN_MINUTES}) :
        \E shot_ok \in (IF ShotFiresNow THEN BOOLEAN ELSE {TRUE}) :
            LoopCheck(mins, shot_ok)

Next ==
    \/ AdvanceToDue
    \/ Tick
    \/ MaybeFire
    \/ Login
    \/ Logout
    \/ RecordingWorker
    \/ GracefulShutdown

Spec == Init /\ [][Next]_vars

\* ---- the pre-shift scenario alone, with the scheduling the Tk event loop
\* ---- gives: the clock runs and every pending after() callback is run ----
InitLive ==
    /\ user_db = UserTable
    /\ wall_base = HMS(8, 59, 48) - BootMono
    /\ horizon = BootMono + ShortWindowMs
    /\ InitApp

LiveSpec == InitLive /\ [][Next]_vars /\ WF_vars(Tick) /\ WF_vars(AdvanceToDue)

\* ---- _compute_today_bounds over a table of shift times: one user whose
\* ---- two columns are drawn from TimesOfDay, logging in at one of LoginWalls
TimesOfDay == { HMS(0, 0, 0), HMS(6, 0, 0), HMS(9, 0, 0), HMS(18, 0, 0),
                HMS(22, 0, 0), HMS(23, 59, 59) }
LoginWalls == { HMS(0, 0, 0), HMS(8, 59, 48), DayMs + HMS(23, 59, 59) }

InitBounds ==
    /\ \E s \in TimesOfDay, e \in TimesOfDay \cup {None} :
          user_db = (DayUser :> [shift_start_time |-> s, shift_end_time |-> e])
    /\ wall_base \in { w - BootMono : w \in LoginWalls }
    /\ horizon = BootMono
    /\ InitApp

NextBounds == Login

SpecBounds == InitBounds /\ [][NextBounds]_vars

\* ---- a day-shift session later in the day.  The app was constructed at
\* ---- 09:00:05, the user logged in at once and has typed ever since; every
\* ---- tick ran on time, every draw was SHOT_MIN_MINUTES and every capture
\* ---- succeeded.  The state is the one after `taken` captures, when the
\* ---- armed delay has `left` ticks to run.
TicksPerShot == (SHOT_MIN_MINUTES * 60 * 1000) \div CHECK_INTERVAL_MS
MaxTicksLeft == 2
ShotWindowTicks == 4
ShotsAlreadyTaken == { 0, MIN_SCREENSHOTS_PER_SHIFT - 2, MIN_SCREENSHOTS_PER_SHIFT - 1 }

DaySnapshot(taken, left) ==
    LET n == taken * TicksPerShot + (TicksPerShot - left)   \* ticks run so far
        t == BootMono + n * CHECK_INTERVAL_MS
        b == ComputeTodayBounds(UserTable[DayUser], HMS(9, 0, 5))
    IN
    /\ user_db = UserTable
    /\ wall_base = HMS(9, 0, 5) - BootMono
    /\ horizon = t + (TicksPerShot + ShotWindowTicks) * CHECK_INTERVAL_MS
    /\ now = t
    /\ due = t + CHECK_INTERVAL_MS
    /\ alive = TRUE
    /\ _last_fire = t
    /\ current_user = DayUser
    /\ logged_in_at = BootMono
    /\ last_activity = t
    /\ inactive_sent = FALSE
    /\ active_since = BootMono
    /\ inactive_started_mono = None
    /\ active_seconds_today = (n * CHECK_INTERVAL_MS) \div SecMs
    /\ inactive_seconds_today = 0
    /\ overtime_seconds_today = 0
    /\ _last_tick = BootMono + ((n * CHECK_INTERVAL_MS) \div SecMs) * SecMs
    /\ screenshots_taken_today = taken
    /\ next_screenshot_after_ms = left * CHECK_INTERVAL_MS
    /\ _today_shift_start = b[1]
    /\ _today_shift_end = b[2]
    /\ _overtime_started_mono = None
    /\ _recording_in_progress = FALSE
    /\ _pre_shift = FALSE
    /\ ui_status = "Active"
    /\ db_status = [u \in DOMAIN UserTable |-> IF u = DayUser THEN "active" ELSE "off"]
    /\ events = 0
    /\ inactive_writes = 0
    /\ last_event = [id |-> 0, user |-> None, active_duration_seconds |-> None]
    /\ notifications = 0
    /\ emails = 0
    /\ rec_dispatched = 0
    /\ rec_worker = {}
    /\ recordings = 0
    /\ overtime_rows = 0
    /\ capture_calls = taken
    /\ tick_pc = "idle"
    /\ tick_idle = None
    /\ listener = [th \in ListenerThreads |-> None]
    /\ callback = [th \in ListenerThreads |-> CallbackIdle]

InitDay == \E taken \in ShotsAlreadyTaken, left \in 1 .. MaxTicksLeft : DaySnapshot(taken, left)

\* from there on, ticks alone
NextTicks ==
    \/ AdvanceToDue
    \/ Tick

SpecTicks == InitDay /\ [][NextTicks]_vars

\* ---- late ticks.  after(CHECK_INTERVAL_MS, ...) runs the callback no
\* ---- earlier than asked; the blocking calls of the Tk main thread (store
\* ---- calls, captures, a busy desktop) make it later.  The session is
\* ---- constructed shortly before the day shift starts.
JitterWindowMs == 15000
MaxLateTicks == 5
LateBy == { MaxLateTicks * CHECK_INTERVAL_MS }

AdvanceLate ==
    /\ alive
    /\ due # None
    /\ now < due
    /\ \A th \in ListenerThreads : listener[th] = None
    /\ \A th \in ListenerThreads : callback[th] = CallbackIdle
    /\ \E late \in LateBy :
          /\ due + late <= horizon
          /\ now' = due + late
    /\ UNCHANGED << wall_base, horizon, due, alive, _last_fire, current_user, logged_in_at,
           last_activity, inactive_sent, active_since, inactive_started_mono,
           active_seconds_today, inactive_seconds_today, overtime_seconds_today,
           _last_tick, screenshots_taken_today, next_screenshot_after_ms,
           _today_shift_start, _today_shift_end, _overtime_started_mono,
           _recording_in_progress, _pre_shift, ui_status, user_db, db_status,
           events, last_event, notifications, emails, rec_dispatched,
           rec_worker, recordings, overtime_rows, capture_calls,
           tick_pc, tick_idle, listener, inactive_writes, callback >>

InitJitter ==
    /\ user_db = UserTable
    /\ wall_base = HMS(8, 59, 58) - BootMono
    /\ horizon = BootMono + JitterWindowMs
    /\ InitApp

NextJitter ==
    \/ AdvanceToDue
    \/ AdvanceLate
    \/ Tick
    \/ MaybeFire
    \/ Login
    \/ Logout

SpecJitter == InitJitter /\ [][NextJitter]_vars


\* ---- _loop_check statement by statement, for the threads that run beside
\* ---- the Tk main thread (the two pynput listeners, the recording worker).
\* ---- A store call that raises leaves _loop_check at that statement: Tk
\* ---- reports the exception and goes on with its event loop, and the
\* ---- after() call at the end of _loop_check has not run.

\* the statements of the inactivity boundary, in program order
AfterStatement_DispatchFirst(pc) ==
    CASE pc = "record_event" -> "email"
      [] pc = "email" -> "recording"
      [] pc = "recording" -> "update_status"
      [] pc = "update_status" -> "mark"
      [] pc = "mark" -> "screenshots"

AfterStatement(pc) ==
    CASE pc = "record_event" -> "update_status"
      [] pc = "update_status" -> "mark"
      [] pc = "mark" -> "email"
      [] pc = "email" -> "recording"
      [] pc = "recording" -> "screenshots"

\* top of the tick: idle, pre-shift countdown & auto-start, overtime
\* window, 1-second ticker.  status_ok = FALSE: update_user_status raised in
\* _start_shift_now.
LoopTop(mins, status_ok) ==
    LET idle   == now - last_activity
        starts == ShiftStartsNow
        st     == StartShiftNow(mins)
        pre1   == IF starts THEN st._pre_shift ELSE _pre_shift
        bounds == IF current_user # None /\ _today_shift_end = None
                  THEN ComputeTodayBounds(user_db[current_user], Wall)
                  ELSE << _today_shift_start, _today_shift_end >>
        after_end == current_user # None /\ bounds[2] # None /\ Wall >= bounds[2]
        ticks  == now - _last_tick >= SecMs
        delta  == TickerDelta(now - _last_tick)
        counts == ticks /\ TickerCounts(pre1)
        isact  == idle < INACTIVITY_SECONDS * SecMs
    IN
    /\ alive
    /\ tick_pc = "idle"
    /\ due # None
    /\ now >= due
    /\ IF (starts /\ ~status_ok) \/ BoundsRaiseInTick
       THEN /\ due' = None
            /\ UNCHANGED << now, wall_base, horizon, alive, _last_fire, current_user,
                            logged_in_at, last_activity, inactive_sent, active_since,
                            inactive_started_mono, active_seconds_today,
                            inactive_seconds_today, overtime_seconds_today, _last_tick,
                            screenshots_taken_today, next_screenshot_after_ms,
                            _today_shift_start, _today_shift_end,
                            _overtime_started_mono, _recording_in_progress, _pre_shift,
                            ui_status, user_db, db_status, events, last_event,
                            notifications, emails, rec_dispatched, rec_worker,
                            recordings, overtime_rows, capture_calls, tick_pc,
                            tick_idle, listener, inactive_writes, callback >>
       ELSE /\ tick_pc' = "boundary"
            /\ tick_idle' = idle
            /\ last_activity' = IF starts THEN st.last_activity ELSE last_activity
            /\ inactive_sent' = IF starts THEN st.inactive_sent ELSE inactive_sent
            /\ active_since' = IF starts THEN st.active_since ELSE active_since
            /\ inactive_started_mono' =
                  IF starts THEN st.inactive_started_mono ELSE inactive_started_mono
            /\ _pre_shift' = pre1
            /\ screenshots_taken_today' =
                  IF starts THEN st.screenshots_taken_today ELSE screenshots_taken_today
            /\ next_screenshot_after_ms' =
                  IF starts THEN st.next_screenshot_after_ms ELSE next_screenshot_after_ms
            /\ db_status' = IF starts THEN st.db ELSE db_status
            /\ ui_status' = IF starts THEN st.ui ELSE ui_status
            /\ _today_shift_start' = bounds[1]
            /\ _today_shift_end' = bounds[2]
            /\ _last_tick' = IF ticks THEN TickerCarry(_last_tick, delta) ELSE _last_tick
            /\ active_seconds_today' =
                  IF counts /\ isact THEN active_seconds_today + delta
                  ELSE active_seconds_today
            /\ overtime_seconds_today' =
                  IF counts /\ isact /\ after_end
                  THEN overtime_seconds_today + delta ELSE overtime_seconds_today
            /\ inactive_seconds_today' =
                  IF counts /\ ~isact THEN inactive_seconds_today + delta
                  ELSE inactive_seconds_today
            /\ _overtime_started_mono' = OvertimeMarkerAfterTick(after_end, idle)
            /\ UNCHANGED << now, wall_base, horizon, due, alive, _last_fire,
                            current_user, logged_in_at, _recording_in_progress,
                            user_db, events, last_event, notifications, emails,
                            rec_dispatched, rec_worker, recordings, overtime_rows,
                            capture_calls, listener, inactive_writes, callback >>

TickTop ==
    \E mins \in (IF ShiftStartsNow THEN ShotMinutes ELSE {SHOT_MIN_MINUTES}) :
        \E status_ok \in (IF ShiftStartsNow THEN BOOLEAN ELSE {TRUE}) :
            LoopTop(mins, status_ok)

\* inactivity boundary: the two tests, on the idle computed at the top
LoopBoundary ==
    /\ alive
    /\ tick_pc = "boundary"
    /\ tick_pc' = IF InactivityFires(_pre_shift, tick_idle, inactive_sent)
                  THEN "record_event" ELSE "screenshots"
    /\ UNCHANGED << now, wall_base, horizon, due, alive, _last_fire,
                    current_user, logged_in_at, last_activity, inactive_sent,
                    active_since, inactive_started_mono, active_seconds_today,
                    inactive_seconds_today, overtime_seconds_today, _last_tick,
                    screenshots_taken_today, next_screenshot_after_ms,
                    _today_shift_start, _today_shift_end,
                    _overtime_started_mono, _recording_in_progress, _pre_shift,
                    ui_status, user_db, db_status, events, last_event,
                    notifications, emails, rec_dispatched, rec_worker,
                    recordings, overtime_rows, capture_calls, tick_idle,
                    listener, inactive_writes, callback >>

\* active_duration = ...; event_id = record_event(...)
LoopRecordEvent(ok) ==
    /\ alive
    /\ tick_pc = "record_event"
    /\ IF ok
       THEN /\ events' = events + 1
            /\ last_event' =
                  [id |-> events + 1, user |-> current_user,
                   active_duration_seconds |->
                       IF active_since # None
                       THEN (now - active_since) \div SecMs ELSE None]
            /\ tick_pc' = AfterStatement(tick_pc)
            /\ UNCHANGED << due, tick_idle >>
       ELSE /\ tick_pc' = "idle"
            /\ tick_idle' = None
            /\ due' = None
            /\ UNCHANGED << events, last_event >>
    /\ UNCHANGED << now, wall_base, horizon, alive, _last_fire, current_user,
                    logged_in_at, last_activity, inactive_sent, active_since,
                    inactive_started_mono, active_seconds_today,
                    inactive_seconds_today, overtime_seconds_today, _last_tick,
                    screenshots_taken_today, next_screenshot_after_ms,
                    _today_shift_start, _today_shift_end,
                    _overtime_started_mono, _recording_in_progress, _pre_shift,
                    ui_status, user_db, db_status, notifications, emails,
                    rec_dispatched, rec_worker, recordings, overtime_rows,
                    capture_calls, listener, inactive_writes, callback >>

\* update_user_status(self.current_user["id"], "inactive")
LoopUpdateStatus(ok) ==
    /\ alive
    /\ tick_pc = "update_status"
    /\ IF ok
       THEN /\ db_status' = [db_status EXCEPT ![current_user] = "inactive"]
            /\ inactive_writes' = inactive_writes + 1
            /\ tick_pc' = AfterStatement(tick_pc)
            /\ UNCHANGED << due, tick_idle >>
       ELSE /\ tick_pc' = "idle"
            /\ tick_idle' = None
            /\ due' = None
            /\ UNCHANGED << db_status, inactive_writes >>
    /\ UNCHANGED << now, wall_base, horizon, alive, _last_fire, current_user,
                    logged_in_at, last_activity, inactive_sent, active_since,
                    inactive_started_mono, active_seconds_today,
                    inactive_seconds_today, overtime_seconds_today, _last_tick,
                    screenshots_taken_today, next_screenshot_after_ms,
                    _today_shift_start, _today_shift_end,
                    _overtime_started_mono, _recording_in_progress, _pre_shift,
                    ui_status, user_db, events, last_event, notifications,
                    emails, rec_dispatched, rec_worker, recordings,
                    overtime_rows, capture_calls, listener, callback >>

\* inactive_sent = True; inactive_started_mono = now; set_status; _notify
LoopMark ==
    /\ alive
    /\ tick_pc = "mark"
    /\ inactive_sent' = TRUE
    /\ inactive_started_mono' = now
    /\ ui_status' = "Inactive"
    /\ notifications' = notifications + 1
    /\ tick_pc' = AfterStatement(tick_pc)
    /\ UNCHANGED << now, wall_base, horizon, due, alive, _last_fire,
                    current_user, logged_in_at, last_activity, active_since,
                    active_seconds_today, inactive_seconds_today,
                    overtime_seconds_today, _last_tick,
                    screenshots_taken_today, next_screenshot_after_ms,
                    _today_shift_start, _today_shift_end,
                    _overtime_started_mono, _recording_in_progress, _pre_shift,
                    user_db, db_status, events, last_event, emails,
                    rec_dispatched, rec_worker, recordings, overtime_rows,
                    capture_calls, tick_idle, listener, inactive_writes, callback >>

\* self._fanout_inactive_email_async(active_duration)
LoopEmail ==
    /\ alive
    /\ tick_pc = "email"
    /\ emails' = emails + 1
    /\ tick_pc' = AfterStatement(tick_pc)
    /\ UNCHANGED << now, wall_base, horizon, due, alive, _last_fire,
                    current_user, logged_in_at, last_activity, inactive_sent,
                    active_since, inactive_started_mono, active_seconds_today,
                    inactive_seconds_today, overtime_seconds_today, _last_tick,
                    screenshots_taken_today, next_screenshot_after_ms,
                    _today_shift_start, _today_shift_end,
                    _overtime_started_mono, _recording_in_progress, _pre_shift,
                    ui_status, user_db, db_status, events, last_event,
                    notifications, rec_dispatched, rec_worker, recordings,
                    overtime_rows, capture_calls, tick_idle, listener,
                    inactive_writes, callback >>

\* if not self._recording_in_progress: ... threading.Thread(...).start()
LoopRecording ==
    /\ alive
    /\ tick_pc = "recording"
    /\ IF StartsRecording(TRUE)
       THEN /\ _recording_in_progress' = TRUE
            /\ rec_dispatched' = rec_dispatched + 1
            /\ rec_worker' = rec_worker \cup
                                {[event_id |-> last_event.id, user |-> current_user]}
       ELSE UNCHANGED << _recording_in_progress, rec_dispatched, rec_worker >>
    /\ tick_pc' = AfterStatement(tick_pc)
    /\ UNCHANGED << now, wall_base, horizon, due, alive, _last_fire,
                    current_user, logged_in_at, last_activity, inactive_sent,
                    active_since, inactive_started_mono, active_seconds_today,
                    inactive_seconds_today, overtime_seconds_today, _last_tick,
                    screenshots_taken_today, next_screenshot_after_ms,
                    _today_shift_start, _today_shift_end,
                    _overtime_started_mono, _pre_shift, ui_status, user_db,
                    db_status, events, last_event, notifications, emails,
                    recordings, overtime_rows, capture_calls, tick_idle,
                    listener, inactive_writes, callback >>

\* random screenshots, then self.after(CHECK_INTERVAL_MS, self._loop_check)
LoopEnd(mins, shot_ok) ==
    LET shot == IF ~_pre_shift
                THEN MaybeTakeRandomScreenshot(screenshots_taken_today,
                                               next_screenshot_after_ms, mins, shot_ok)
                ELSE [taken |-> screenshots_taken_today,
                      after_ms |-> next_screenshot_after_ms, calls |-> capture_calls]
    IN
    /\ alive
    /\ tick_pc = "screenshots"
    /\ screenshots_taken_today' = shot.taken
    /\ next_screenshot_after_ms' = shot.after_ms
    /\ capture_calls' = shot.calls
    /\ due' = now + CHECK_INTERVAL_MS
    /\ tick_pc' = "idle"
    /\ tick_idle' = None
    /\ UNCHANGED << now, wall_base, horizon, alive, _last_fire, current_user,
                    logged_in_at, last_activity, inactive_sent, active_since,
                    inactive_started_mono, active_seconds_today,
                    inactive_seconds_today, overtime_seconds_today, _last_tick,
                    _today_shift_start, _today_shift_end,
                    _overtime_started_mono, _recording_in_progress, _pre_shift,
                    ui_status, user_db, db_status, events, last_event,
                    notifications, emails, rec_dispatched, rec_worker,
                    recordings, overtime_rows, listener, inactive_writes, callback >>

TickEnd ==
    \E mins \in (IF ShotFiresNow THEN ShotMinutes ELSE {SHOT_MIN_MINUTES}) :
        \E shot_ok \in (IF ShotFiresNow THEN BOOLEAN ELSE {TRUE}) :
            LoopEnd(mins, shot_ok)

TickRecordEvent == \E ok \in BOOLEAN : LoopRecordEvent(ok)

TickUpdateStatus == \E ok \in BOOLEAN : LoopUpdateStatus(ok)

\* ---- GlobalActivityMonitor._maybe_fire on a listener thread, in two
\* ---- steps: "now = time.monotonic(); if now - self._last_fire >= ..."
\* ---- and "self._last_fire = now; self.on_activity()" ----
ListenerTest(th) ==
    /\ alive
    /\ UserActsNow
    /\ listener[th] = None
    /\ now - _last_fire >= MIN_INTERVAL_MS
    /\ listener' = [listener EXCEPT ![th] = now]
    /\ UNCHANGED << now, wall_base, horizon, due, alive, _last_fire,
                    current_user, logged_in_at, last_activity, inactive_sent,
                    active_since, inactive_started_mono, active_seconds_today,
                    inactive_seconds_today, overtime_seconds_today, _last_tick,
                    screenshots_taken_today, next_screenshot_after_ms,
                    _today_shift_start, _today_shift_end,
                    _overtime_started_mono, _recording_in_progress, _pre_shift,
                    ui_status, user_db, db_status, events, last_event,
                    notifications, emails, rec_dispatched, rec_worker,
                    recordings, overtime_rows, capture_calls, tick_pc,
                    tick_idle, inactive_writes, callback >>

ListenerFire(th) ==
    /\ alive
    /\ listener[th] # None
    /\ _last_fire' = listener[th]
    /\ listener' = [listener EXCEPT ![th] = None]
    /\ OnGlobalActivity
    /\ UNCHANGED << now, wall_base, horizon, due, alive, current_user,
                    logged_in_at, active_seconds_today, inactive_seconds_today,
                    overtime_seconds_today, _last_tick,
                    screenshots_taken_today, next_screenshot_after_ms,
                    _today_shift_start, _today_shift_end,
                    _overtime_started_mono, _recording_in_progress, _pre_shift,
                    user_db, events, last_event, notifications, emails,
                    rec_dispatched, rec_worker, recordings, overtime_rows,
                    capture_calls, tick_pc, tick_idle, inactive_writes, callback >>

RawInputTested == \E th \in ListenerThreads : ListenerTest(th)

RawInputFires == \E th \in ListenerThreads : ListenerFire(th)

\* ---- the threads together, from a construction shortly before the day
\* ---- shift starts ----
ThreadsWindowMs == 12500

InitThreads ==
    /\ user_db = (DayUser :> UserTable[DayUser])
    /\ wall_base = HMS(8, 59, 58) - BootMono
    /\ horizon = BootMono + ThreadsWindowMs
    /\ InitApp

NextThreads ==
    \/ AdvanceToDue
    \/ TickTop
    \/ LoopBoundary
    \/ TickRecordEvent
    \/ TickUpdateStatus
    \/ LoopMark
    \/ LoopEmail
    \/ LoopRecording
    \/ TickEnd
    \/ RawInputTested
    \/ RawInputFires
    \/ Login
    \/ RecordingWorker

SpecThreads == InitThreads /\ [][NextThreads]_vars


\* ---- a session within the shift, long enough for two idle episodes: the
\* ---- app was constructed at 09:00:05 and the user logged in at once (the
\* ---- state on_logged_in leaves, its draw SHOT_MIN_MINUTES); the recording
\* ---- thread, once started, runs to its end ----
WorkersWindowMs == 21500

InitWorkers ==
    LET b == ComputeTodayBounds(UserTable[DayUser], HMS(9, 0, 5))
    IN
    /\ user_db = (DayUser :> UserTable[DayUser])
    /\ wall_base = HMS(9, 0, 5) - BootMono
    /\ horizon = BootMono + WorkersWindowMs
    /\ now = BootMono
    /\ due = BootMono + CHECK_INTERVAL_MS
    /\ alive = TRUE
    /\ _last_fire = 0
    /\ current_user = DayUser
    /\ logged_in_at = BootMono
    /\ last_activity = BootMono
    /\ inactive_sent = FALSE
    /\ active_since = BootMono
    /\ inactive_started_mono = None
    /\ active_seconds_today = 0
    /\ inactive_seconds_today = 0
    /\ overtime_seconds_today = 0
    /\ _last_tick = BootMono
    /\ screenshots_taken_today = 0
    /\ next_screenshot_after_ms = PlanNextRandomScreenshot(SHOT_MIN_MINUTES)
    /\ _today_shift_start = b[1]
    /\ _today_shift_end = b[2]
    /\ _overtime_started_mono = None
    /\ _recording_in_progress = FALSE
    /\ _pre_shift = FALSE
    /\ ui_status = "Active"
    /\ db_status = (DayUser :> "active")
    /\ events = 0
    /\ inactive_writes = 0
    /\ last_event = [id |-> 0, user |-> None, active_duration_seconds |-> None]
    /\ notifications = 0
    /\ emails = 0
    /\ rec_dispatched = 0
    /\ rec_worker = {}
    /\ recordings = 0
    /\ overtime_rows = 0
    /\ capture_calls = 0
    /\ tick_pc = "idle"
    /\ tick_idle = None
    /\ listener = [th \in ListenerThreads |-> None]
    /\ callback = [th \in ListenerThreads |-> CallbackIdle]

NextWorkers ==
    \/ AdvanceToDue
    \/ Tick
    \/ MaybeFire
    \/ RecordingWorker

SpecWorkers == InitWorkers /\ [][NextWorkers]_vars /\ WF_vars(RecordingWorker)

\* ---- a session over midnight: the app is constructed shortly before the
\* ---- calendar day of the shift timezone changes ----
MidnightWindowMs == 6000

InitMidnight ==
    /\ user_db = UserTable
    /\ wall_base = HMS(23, 59, 57) - BootMono
    /\ horizon = BootMono + MidnightWindowMs
    /\ InitApp

NextMidnight ==
    \/ AdvanceToDue
    \/ Tick
    \/ MaybeFire
    \/ Login
    \/ Logout

SpecMidnight == InitMidnight /\ [][NextMidnight]_vars

\* ---- _on_global_activity statement by statement: the callback runs on a
\* ---- pynput listener thread and update_user_status is a call into the
\* ---- store, during which the Tk main thread runs ----
\* _maybe_fire passes its test, the callback stores last_activity, takes
\* one of its two branches and evaluates self.current_user["id"]
CallbackEnter(th) ==
    /\ alive
    /\ UserActsNow
    /\ callback[th] = CallbackIdle
    /\ now - _last_fire >= MIN_INTERVAL_MS
    /\ _last_fire' = now
    /\ last_activity' = now
    /\ callback' = IF CallbackEndsEpisode \/ CallbackOpensStreak
                   THEN [callback EXCEPT ![th] =
                            [pc |-> "update_user_status", now |-> now,
                             user |-> current_user, ends |-> CallbackEndsEpisode]]
                   ELSE callback
    /\ UNCHANGED << now, wall_base, horizon, due, alive, current_user,
                    logged_in_at, inactive_sent, active_since,
                    inactive_started_mono, active_seconds_today,
                    inactive_seconds_today, overtime_seconds_today, _last_tick,
                    screenshots_taken_today, next_screenshot_after_ms,
                    _today_shift_start, _today_shift_end,
                    _overtime_started_mono, _recording_in_progress, _pre_shift,
                    ui_status, user_db, db_status, events, last_event,
                    notifications, emails, rec_dispatched, rec_worker,
                    recordings, overtime_rows, capture_calls, tick_pc,
                    tick_idle, listener, inactive_writes >>

\* update_user_status(id, "active") returns and the assignments after it
\* run; ok = FALSE: the call raises and the exception leaves the callback
CallbackWrite(th, ok) ==
    LET c == callback[th]
    IN
    /\ alive
    /\ c # CallbackIdle
    /\ callback' = [callback EXCEPT ![th] = CallbackIdle]
    /\ IF ok
       THEN /\ db_status' = [db_status EXCEPT ![c.user] = "active"]
            /\ active_since' = c.now
            /\ ui_status' = "Active"
            /\ inactive_sent' = IF c.ends THEN FALSE ELSE inactive_sent
            /\ inactive_started_mono' = IF c.ends THEN None ELSE inactive_started_mono
       ELSE UNCHANGED << db_status, active_since, ui_status, inactive_sent,
                         inactive_started_mono >>
    /\ UNCHANGED << now, wall_base, horizon, due, alive, _last_fire,
                    current_user, logged_in_at, last_activity,
                    active_seconds_today, inactive_seconds_today,
                    overtime_seconds_today, _last_tick,
                    screenshots_taken_today, next_screenshot_after_ms,
                    _today_shift_start, _today_shift_end,
                    _overtime_started_mono, _recording_in_progress, _pre_shift,
                    user_db, events, last_event, notifications, emails,
                    rec_dispatched, rec_worker, recordings, overtime_rows,
                    capture_calls, tick_pc, tick_idle, listener,
                    inactive_writes >>

CallbackEnters == \E th \in ListenerThreads : CallbackEnter(th)

CallbackWrites == \E th \in ListenerThreads, ok \in BOOLEAN : CallbackWrite(th, ok)

\* ---- a day-shift session with the callback followed through its store
\* ---- call; the app is constructed at 09:00:05 ----
CallbackWindowMs == 12000

InitCallback ==
    /\ user_db = (DayUser :> UserTable[DayUser])
    /\ wall_base = HMS(9, 0, 5) - BootMono
    /\ horizon = BootMono + CallbackWindowMs
    /\ InitApp

NextCallback ==
    \/ AdvanceToDue
    \/ Tick
    \/ CallbackEnters
    \/ CallbackWrites
    \/ Login
    \/ Logout

SpecCallback == InitCallback /\ [][NextCallback]_vars

\* ---- a users table with a row whose shift_start_time is not a time of
\* ---- day; the app is constructed at 09:00:05 ----
BadUser == 3
LoginErrorWindowMs == 3000

InitLoginError ==
    /\ user_db = (DayUser :> UserTable[DayUser]) @@
                 (BadUser :> [shift_start_time |-> Unparsable,
                              shift_end_time |-> HMS(18, 0, 0)])
    /\ wall_base = HMS(9, 0, 5) - BootMono
    /\ horizon = BootMono + LoginErrorWindowMs
    /\ InitApp

NextLoginError ==
    \/ AdvanceToDue
    \/ Tick
    \/ MaybeFire
    \/ Login
    \/ Logout

SpecLoginError == InitLoginError /\ [][NextLoginError]_vars

(***************************************************************************)
(* Properties                                                              *)
(***************************************************************************)
IdleMs == now - last_activity
ThresholdMs == INACTIVITY_SECONDS * SecMs
LoggedIn == alive /\ current_user # None

\* the session shows and has persisted the inactive status
StatusInactive ==
    /\ inactive_sent
    /\ ui_status = "Inactive"
    /\ db_status[current_user] = "inactive"

StatusNotInactive ==
    /\ ~inactive_sent
    /\ ui_status # "Inactive"
    /\ db_status[current_user] # "inactive"

\* C1 (as claimed): after every tick and every activity callback of a
\* logged-in session, the status is Inactive if and only if the last
\* activity is at least INACTIVITY_SECONDS old and the session is not in
\* PreShift.
C1_InactiveIffIdle ==
    [][ ((Tick \/ MaybeFire) /\ current_user' # None)
        => IF IdleMs' >= ThresholdMs /\ ~_pre_shift'
           THEN StatusInactive' ELSE StatusNotInactive' ]_vars


\* a step that is not an activity callback
NoCallback == _last_fire' = _last_fire

\* C2: one Inactive batch per idle episode.  A step that records an
\* inactive event records exactly one, turns inactive_sent from false to
\* true and carries the whole batch (persisted status, toast, email thread,
\* recording thread unless one is in flight); while inactive_sent is set no
\* step of the session records another event, and only an activity callback
\* clears the flag; a tick that sees the idle threshold reached leaves the
\* flag set.
C2_OneBatchPerIdleEpisode ==
    [][ /\ (events' # events
            => /\ events' = events + 1
               /\ ~inactive_sent /\ inactive_sent'
               /\ last_event'.id = events'
               /\ db_status'[current_user] = "inactive"
               /\ ui_status' = "Inactive"
               /\ notifications' = notifications + 1
               /\ emails' = emails + 1
               /\ (rec_dispatched' = rec_dispatched + 1 \/ _recording_in_progress))
        /\ (inactive_sent /\ current_user' = current_user
            => /\ events' = events
               /\ (NoCallback => inactive_sent'))
        /\ (Tick /\ current_user # None /\ ~_pre_shift' /\ IdleMs >= ThresholdMs
            => inactive_sent')
      ]_vars

\* C2 witness: one batch fired, and a tick ran after a further second of idleness
C2_Witness ==
    /\ LoggedIn /\ inactive_sent /\ events = 1
    /\ now - inactive_started_mono >= SecMs
    /\ IdleMs >= ThresholdMs + SecMs
    /\ due > now

\* C3: at most one recording worker is in flight; an Inactive transition
\* that finds a recording in flight starts no worker; insert_recording is
\* called at most once per worker started.
C3_RecordingMutex ==
    /\ [](Cardinality(rec_worker) <= 1)
    /\ [](recordings + Cardinality(rec_worker) <= rec_dispatched)
    /\ [](rec_worker # {} => _recording_in_progress)
    /\ [][ (events' # events /\ _recording_in_progress)
           => (rec_dispatched' = rec_dispatched /\ rec_worker' = rec_worker) ]_vars

\* C3 witness: two Inactive transitions, one worker, one insert_recording
C3_Witness == events = 2 /\ rec_dispatched = 1 /\ recordings = 1

\* C5: login classification.
C5_LoginClassification ==
    [][ (current_user = None /\ current_user' # None)
        => IF Wall < _today_shift_start'
           THEN /\ _pre_shift'
                /\ db_status'[current_user'] = "off"
                /\ active_since' = None
                /\ next_screenshot_after_ms' = None
                /\ ~inactive_sent'
           ELSE /\ ~_pre_shift'
                /\ active_since' = now /\ last_activity' = now
                /\ ~inactive_sent'
                /\ db_status'[current_user'] = "active"
                /\ next_screenshot_after_ms' \in
                      { m * 60 * 1000 : m \in SHOT_MIN_MINUTES .. SHOT_MAX_MINUTES }
                /\ screenshots_taken_today' = 0 ]_vars

\* C5 witnesses: a login before the shift start, and one exactly at it
C5_Witness ==
    /\ LoggedIn /\ ~_pre_shift /\ active_since = now
    /\ Wall = _today_shift_start /\ db_status[current_user] = "active"

\* C6: a step that starts and ends in PreShift records no event, writes no
\* status, changes no counter, captures nothing and leaves the screenshot
\* delay alone.
C6_PreShiftNoTracking ==
    [][ (_pre_shift /\ _pre_shift')
        => /\ events' = events
           /\ db_status' = db_status
           /\ active_seconds_today' = active_seconds_today
           /\ inactive_seconds_today' = inactive_seconds_today
           /\ overtime_seconds_today' = overtime_seconds_today
           /\ capture_calls' = capture_calls
           /\ screenshots_taken_today' = screenshots_taken_today
           /\ next_screenshot_after_ms' = next_screenshot_after_ms
           /\ rec_dispatched' = rec_dispatched /\ emails' = emails ]_vars

\* C6 witness: in PreShift the ticker has run for seconds and an activity
\* callback has arrived, idle past the threshold
C6_Witness ==
    /\ LoggedIn /\ _pre_shift
    /\ _last_tick >= BootMono + 3 * SecMs
    /\ last_activity > BootMono
    /\ IdleMs >= ThresholdMs
    /\ active_seconds_today = 0 /\ inactive_seconds_today = 0 /\ events = 0


\* the shift has started for the session: tracking runs
ShiftStarted == current_user # None /\ ~_pre_shift /\ active_since # None

\* C4: a day-shift session in PreShift leaves PreShift for Active by ticks
\* alone (or is ended by logout or shutdown first), and it is never still in
\* PreShift once the clock has reached today_start.
C4_ShiftStartsByTicks ==
    /\ ((alive /\ current_user = DayUser /\ _pre_shift)
           ~> (ShiftStarted \/ current_user = None \/ ~alive))
    /\ []((LoggedIn /\ current_user = DayUser /\ _pre_shift)
           => Wall < _today_shift_start)

\* C4 witness: the shift was started by a tick, with no activity callback
\* since construction: the streak began before the login test of
\* on_logged_in could have made the session Active
C4_Witness ==
    /\ LoggedIn /\ ShiftStarted
    /\ _last_fire = 0
    /\ wall_base + active_since < _today_shift_start
    /\ now > active_since

\* C7: the bounds a login computes.
C7_ShiftBounds ==
    current_user # None
    => LET row      == user_db[current_user]
           e        == IF row.shift_end_time = None THEN HMS(18, 0, 0)
                       ELSE row.shift_end_time
           midnight == (Wall \div DayMs) * DayMs
       IN  /\ _today_shift_end > _today_shift_start
           /\ _today_shift_end - _today_shift_start <= DayMs
           /\ _today_shift_start = midnight + row.shift_start_time
           /\ _today_shift_end = IF e <= row.shift_start_time
                                 THEN midnight + DayMs + e
                                 ELSE midnight + e

\* C7 witness: the 22:00-06:00 shift, today_end 06:00 on the next date
C7_Witness ==
    /\ current_user # None
    /\ user_db[current_user].shift_start_time = HMS(22, 0, 0)
    /\ user_db[current_user].shift_end_time = HMS(6, 0, 0)
    /\ _today_shift_end = ((Wall \div DayMs) + 1) * DayMs + HMS(6, 0, 0)
    /\ _today_shift_end - _today_shift_start = HMS(8, 0, 0)

\* an active streak of the session that began after the shift end
StreakAfterEnd ==
    /\ current_user # None /\ ~_pre_shift /\ ~inactive_sent
    /\ active_since # None
    /\ wall_base + active_since >= _today_shift_end

\* C8 (as claimed): when a streak that began after the shift end and has run
\* for two seconds or more is ended by idle onset, logout or shutdown, one
\* insert_overtime row is written and the open marker is cleared.
C8_OvertimeFlushed ==
    [][ ( /\ StreakAfterEnd
          /\ now - active_since >= 2 * SecMs
          /\ \/ events' = events + 1
             \/ current_user' = None
             \/ ~alive' )
        => (overtime_rows' = overtime_rows + 1 /\ _overtime_started_mono' = None)
      ]_vars

\* C9: in a session whose first streak began after the shift end,
\* overtime_seconds_today is the whole seconds of that streak up to the last
\* one the ticker has counted, it trails the streak by less than one second
\* and one tick, and the step that ends the streak (idle onset, shutdown)
\* adds nothing to it.
C9_OvertimeAccrual ==
    /\ []((StreakAfterEnd /\ events = 0)
          => /\ overtime_seconds_today * SecMs = _last_tick - active_since
             /\ overtime_seconds_today = active_seconds_today
             /\ now - active_since - overtime_seconds_today * SecMs >= 0
             /\ now - active_since - overtime_seconds_today * SecMs
                   < SecMs + CHECK_INTERVAL_MS)
    /\ [][ (StreakAfterEnd /\ events = 0 /\ (events' # events \/ ~alive'))
           => overtime_seconds_today' = overtime_seconds_today ]_vars

\* C9 witness: five seconds or more of overtime, then the shutdown flush
C9_Witness ==
    /\ ~alive /\ StreakAfterEnd /\ events = 0
    /\ overtime_seconds_today >= 5
    /\ now - active_since >= 5 * SecMs

\* C10: the count never exceeds the cap, and at the cap a step of the
\* session neither captures nor counts.
C10_ScreenshotCap ==
    /\ [](screenshots_taken_today <= MIN_SCREENSHOTS_PER_SHIFT)
    /\ [][ (screenshots_taken_today >= MIN_SCREENSHOTS_PER_SHIFT
            /\ current_user # None /\ current_user' = current_user)
           => /\ capture_calls' = capture_calls
              /\ screenshots_taken_today' = screenshots_taken_today ]_vars

\* C10 witness: the cap was reached and a whole armed delay of ticks has run since
C10_Witness ==
    /\ screenshots_taken_today = MIN_SCREENSHOTS_PER_SHIFT
    /\ capture_calls = MIN_SCREENSHOTS_PER_SHIFT
    /\ next_screenshot_after_ms = PlanNextRandomScreenshot(SHOT_MIN_MINUTES)
    /\ now = horizon

\* the values _plan_next_random_screenshot can arm
FreshDelays == { m * 60 * 1000 : m \in SHOT_MIN_MINUTES .. SHOT_MAX_MINUTES }

\* C11: screenshot re-arm.  A capture fires only on a step that finds the
\* armed delay down to its last CHECK_INTERVAL_MS, one capture per step, and
\* leaves a fresh delay of 20..35 minutes; any other step of a tracking
\* session takes at most one CHECK_INTERVAL_MS off the armed delay.  In the
\* session whose first capture fired TicksPerShot ticks after its start, the
\* second capture is not before 2 * TicksPerShot ticks.
C11_ScreenshotRearm ==
    /\ [][ capture_calls' # capture_calls
           => /\ capture_calls' = capture_calls + 1
              /\ next_screenshot_after_ms # None
              /\ next_screenshot_after_ms <= CHECK_INTERVAL_MS
              /\ next_screenshot_after_ms' \in FreshDelays ]_vars
    /\ [][ ( /\ current_user # None /\ current_user' = current_user
             /\ ~_pre_shift
             /\ next_screenshot_after_ms # None
             /\ capture_calls' = capture_calls )
           => next_screenshot_after_ms' \in
                 { next_screenshot_after_ms,
                   next_screenshot_after_ms - CHECK_INTERVAL_MS } ]_vars
    /\ [](capture_calls = 2
          => now >= BootMono + 2 * TicksPerShot * CHECK_INTERVAL_MS)

\* C11 witness: the second capture of a session, a whole armed delay of
\* ticks after the first
C11_Witness ==
    /\ capture_calls = 2
    /\ now = BootMono + 2 * TicksPerShot * CHECK_INTERVAL_MS
    /\ next_screenshot_after_ms \in FreshDelays

\* C12: in a logged-in session the two counters together never exceed the
\* time elapsed since the login: they are whole seconds the ticker has moved
\* _last_tick by since on_logged_in set it, and _last_tick is never ahead
\* of the clock.
C12_CountersWithinElapsed ==
    current_user # None
    => /\ (active_seconds_today + inactive_seconds_today) * SecMs
             <= now - logged_in_at
       /\ (active_seconds_today + inactive_seconds_today) * SecMs
             <= _last_tick - logged_in_at
       /\ _last_tick <= now

\* C12 witness: late ticks have counted several seconds at once, active
\* and inactive seconds both, and the counters have caught up with the
\* elapsed time to the second
C12_Witness ==
    /\ current_user # None
    /\ active_seconds_today >= INACTIVITY_SECONDS
    /\ inactive_seconds_today >= 2
    /\ (now - _last_tick) % CHECK_INTERVAL_MS = 0
    /\ _last_tick - logged_in_at
          = (active_seconds_today + inactive_seconds_today) * SecMs
    /\ now - _last_tick < SecMs
    /\ now - due + CHECK_INTERVAL_MS = 0
    /\ (now - BootMono) % InputGridMs # 0

\* C13: ordering on the Active->Inactive transition.  The k-th email
\* thread and the k-th recording thread are started only after the k-th
\* record_event and, after that, the k-th update_user_status(.., "inactive")
\* have returned: a dispatch step finds the event of this transition
\* inserted and its status persisted, and a status write finds its event
\* inserted.
C13_PersistBeforeDispatch ==
    /\ [](emails <= inactive_writes /\ inactive_writes <= events)
    /\ [](\A w \in rec_worker : w.event_id <= inactive_writes)
    /\ [][ inactive_writes' # inactive_writes
           => (events = inactive_writes' /\ emails = inactive_writes) ]_vars
    /\ [][ emails' # emails
           => (events = emails' /\ inactive_writes = emails'
               /\ last_event.id = emails') ]_vars
    /\ [][ rec_dispatched' # rec_dispatched
           => (inactive_writes = events /\ emails = events
               /\ \E w \in rec_worker' : w.event_id = events) ]_vars

\* C13 witness: a transition has run through its dispatches, and an
\* activity callback has arrived while it ran
C13_Witness ==
    /\ tick_pc = "screenshots"
    /\ events = 1 /\ inactive_writes = 1 /\ emails = 1 /\ rec_dispatched = 1
    /\ rec_worker # {}
    /\ _last_fire = now

\* C14 (as claimed): no store failure ends the tick loop: as long as the
\* process lives, an after() timer for _loop_check is pending or
\* _loop_check is running towards its after() call.
C14_TickLoopSurvives == alive => due # None

\* C16 (as claimed): whenever a listener thread invokes the activity
\* callback, the previous invocation (whose instant _last_fire holds) is at
\* least min_interval old.
C16_DebounceInterval ==
    [][ (RawInputFires \/ MaybeFire) => now - _last_fire >= MIN_INTERVAL_MS ]_vars

\* C18 (as claimed): no step records an inactive event, persists the
\* inactive status or sets inactive_sent while the most recent activity
\* callback is less than INACTIVITY_SECONDS old.
C18_NoSpuriousTransition ==
    [][ ( \/ events' # events
          \/ inactive_writes' # inactive_writes
          \/ (inactive_sent' /\ ~inactive_sent) )
        => (_last_fire = 0 \/ now - _last_fire >= ThresholdMs) ]_vars

\* C15: once a recording worker has been started the in-flight flag is
\* cleared again, whether the worker succeeds or raises; the step that ends
\* the worker leaves the flag clear, and an Inactive transition that finds
\* the flag clear starts a new worker.
C15_RecordingFlagCleared ==
    /\ (_recording_in_progress ~> ~_recording_in_progress)
    /\ [][ (rec_worker # {} /\ rec_worker' = {}) => ~_recording_in_progress' ]_vars
    /\ [][ (events' # events /\ ~_recording_in_progress)
           => (rec_dispatched' = rec_dispatched + 1 /\ rec_worker' # {}) ]_vars

\* C15 witness: the first recording failed, and the second Inactive
\* transition of the session has started a new worker
C15_Witness ==
    /\ events = 2 /\ rec_dispatched = 2 /\ recordings = 0
    /\ rec_worker # {} /\ _recording_in_progress

\* the step is the tick that takes the session from PreShift to Active
ShiftStartStep == _pre_shift /\ ~_pre_shift' /\ current_user' # None

\* C17 (as claimed): the tick that starts the shift sets last_activity to
\* its instant, records no inactive event, leaves inactive_sent clear and
\* counts no inactive second; and an inactive event is only ever recorded
\* when the last activity, as the step leaves it, is INACTIVITY_SECONDS old.
C17_ShiftStartResetsIdle ==
    /\ [][ ShiftStartStep
           => /\ last_activity' = now
              /\ events' = events
              /\ ~inactive_sent'
              /\ inactive_seconds_today' = inactive_seconds_today ]_vars
    /\ [][ events' # events => IdleMs' >= ThresholdMs ]_vars

\* C19 (as claimed): after every tick of a logged-in session the cached
\* bounds are those of the current calendar day: today_shift_start lies on
\* the date of the wall clock, and both bounds are what
\* _compute_today_bounds gives for that date.
C19_BoundsOfToday ==
    [][ (Tick /\ current_user # None)
        => /\ _today_shift_start' \div DayMs = Wall \div DayMs
           /\ << _today_shift_start', _today_shift_end' >>
                 = ComputeTodayBounds(user_db[current_user], Wall) ]_vars

\* C20 (as claimed): the tick that starts the shift never runs at an
\* instant before today_start.
C20_NotBeforeShiftStart ==
    [][ ShiftStartStep => Wall >= _today_shift_start ]_vars

\* a step in which a listener thread runs the activity callback
CallbackStep == MaybeFire \/ RawInputFires

\* C21: the activity callback that finds a tracking session Inactive clears
\* inactive_sent, sets active_since and last_activity to its own instant,
\* clears the idle marker and persists and shows Active; and a tick of a
\* tracking session that finds the idle threshold reached with
\* inactive_sent clear records a new inactive event.
C21_InactiveToActive ==
    /\ [][ (CallbackStep /\ current_user # None /\ ~_pre_shift /\ inactive_sent)
           => /\ ~inactive_sent'
              /\ active_since' = now
              /\ last_activity' = now
              /\ inactive_started_mono' = None
              /\ db_status'[current_user] = "active"
              /\ ui_status' = "Active" ]_vars
    /\ [][ (Tick /\ current_user # None /\ ~_pre_shift /\ ~inactive_sent
              /\ IdleMs >= ThresholdMs)
           => (events' = events + 1 /\ inactive_sent') ]_vars

\* C21 witness: the second inactive event of a session, INACTIVITY_SECONDS
\* after the callback that ended the first idle episode
C21_Witness ==
    /\ LoggedIn /\ events = 2 /\ inactive_sent
    /\ active_since = _last_fire
    /\ last_activity = _last_fire
    /\ inactive_started_mono = _last_fire + ThresholdMs
    /\ last_event.active_duration_seconds = INACTIVITY_SECONDS

\* C23: frame of the activity callback.  It leaves the day counters, the
\* screenshot count and armed delay, the shift bounds, the PreShift flag,
\* the recording flag and the session's user alone; before login or in
\* PreShift, and whenever it neither ends an idle episode nor opens a
\* streak, it changes none of the status fields either.
C23_CallbackFrame ==
    [][ CallbackStep
        => /\ last_activity' = now
           /\ UNCHANGED << active_seconds_today, inactive_seconds_today,
                           overtime_seconds_today, _last_tick,
                           screenshots_taken_today, next_screenshot_after_ms,
                           _today_shift_start, _today_shift_end, _pre_shift,
                           _recording_in_progress, _overtime_started_mono,
                           current_user, events, emails, rec_dispatched,
                           recordings, capture_calls >>
           /\ ( ( \/ current_user = None
                  \/ _pre_shift
                  \/ (~inactive_sent /\ active_since # None) )
                => UNCHANGED << inactive_sent, active_since,
                                inactive_started_mono, db_status, ui_status >> )
      ]_vars

\* C23 witness: a callback has arrived in PreShift after the threshold of
\* idleness, and the session shows and has persisted Off
C23_Witness ==
    /\ LoggedIn /\ _pre_shift
    /\ _last_fire = now /\ last_activity = now
    /\ now - logged_in_at >= ThresholdMs
    /\ active_since = None /\ ~inactive_sent
    /\ db_status[current_user] = "off"
    /\ ui_status = "Off (shift not started)"

\* the session was never in PreShift: its login was not before today_start
NeverPreShift ==
    /\ current_user # None
    /\ ~_pre_shift
    /\ wall_base + logged_in_at >= _today_shift_start

\* C24: no systematic undercount.  After every tick of a session that was
\* never in PreShift, the counters together are short of the time elapsed
\* since login by less than one second: what is missing is the fraction
\* _last_tick trails the clock by.
C24_NoUndercount ==
    [][ (Tick /\ NeverPreShift)
        => /\ now - logged_in_at
                 - (active_seconds_today' + inactive_seconds_today') * SecMs < SecMs
           /\ now - logged_in_at
                 - (active_seconds_today' + inactive_seconds_today') * SecMs
                 = now - _last_tick' ]_vars

\* C24 witness: after several late ticks, some of which counted two seconds
\* at once, the counters are 750 ms short of the elapsed time
C24_Witness ==
    /\ NeverPreShift
    /\ due = now + CHECK_INTERVAL_MS
    /\ active_seconds_today + inactive_seconds_today >= 8
    /\ now - logged_in_at
          - (active_seconds_today + inactive_seconds_today) * SecMs
          = SecMs - CHECK_INTERVAL_MS
    /\ (now - BootMono) % (MaxLateTicks * CHECK_INTERVAL_MS) # 0

\* C28: every inactive event handed to record_event carries an
\* active_duration that is absent or at least INACTIVITY_SECONDS
C28_ActiveDurationAtLeastThreshold ==
    \/ last_event.active_duration_seconds = None
    \/ last_event.active_duration_seconds >= INACTIVITY_SECONDS

\* C26: a user whose shift runs over midnight and who logs in after
\* midnight and before the shift end is on shift, not in PreShift
C26_OvernightLoginOnShift ==
    ( /\ current_user # None
      /\ IsOvernight(user_db[current_user].shift_start_time,
                     ShiftEndOrDefault(user_db[current_user]))
      /\ (wall_base + logged_in_at) % DayMs
            < ShiftEndOrDefault(user_db[current_user]) )
    => ~_pre_shift

\* C25: the recording stored for an inactive event is stored under the
\* user whose session fired that event
C25_RecordingAttribution ==
    [][ (RecordingWorker /\ recordings' = recordings + 1)
        => \A w \in rec_worker : w.user = InsertRecordingUser ]_vars

\* a step in which update_user_status raises inside the activity callback
\* that is ending an idle episode of the session's user
CallbackWriteRaises(th) ==
    /\ CallbackWrite(th, FALSE)
    /\ callback[th].ends
    /\ callback[th].user = current_user
    /\ inactive_sent

\* C22: when update_user_status raises in the callback that is ending an
\* idle episode, the session still returns to Active in memory:
\* inactive_sent is cleared and active_since is the callback's instant
C22_CallbackSoftFail ==
    [][ \A th \in ListenerThreads :
          CallbackWriteRaises(th)
          => (~inactive_sent' /\ active_since' = callback[th].now) ]_vars

\* C29: while nobody is logged in every user's persisted status is off
\* and no status is written to the store
C29_OffAfterLogout ==
    /\ [](current_user = None => \A u \in DOMAIN db_status : db_status[u] = "off")
    /\ [][ (current_user = None /\ current_user' = None)
           => db_status' = db_status ]_vars

\* on_logged_in runs for a user whose shift times cannot be parsed
LoginRaises(uid) ==
    /\ BoundsRaise(user_db[uid])
    /\ \E mins \in ShotMinutes : OnLoggedIn(uid, mins)

\* C27: a login that raises leaves the app logged out: current_user is
\* still None after it, nothing is written to the store while nobody is
\* logged in, and the tick loop keeps running
C27_LoginAtomicOnError ==
    /\ [][ \A uid \in DOMAIN user_db :
             (LoginRaises(uid) /\ current_user = None) => current_user' = None ]_vars
    /\ [][ ~TrackerFrameShown /\ ~TrackerFrameShown' => db_status' = db_status ]_vars
    /\ [](alive /\ ~TrackerFrameShown => due # None)

====
